---- MODULE Spec2Model ----
(***************************************************************************)
(* Model of salvo's serve_static path helpers (extra/src/serve_static/     *)
(* mod.rs): encode_url_path, decode_url_path_safely and                    *)
(* format_url_path_safely, and of the embedded-bundle handler exercised by *)
(* test_serve_embed_files.                                                 *)
(*                                                                         *)
(* A Rust &str / String is modelled as the sequence of its UTF-8 bytes     *)
(* (integers 0..255), because percent decoding works on bytes.             *)
(***************************************************************************)
EXTENDS Integers, Sequences, FiniteSets, TLC

VARIABLES raw, path, parts, used_parts, out, pc,
          entry, href, resolved, lpc,
          bundle, fallback, req_path, status, body, epc

vars == <<raw, path, parts, used_parts, out, pc,
          entry, href, resolved, lpc,
          bundle, fallback, req_path, status, body, epc>>

normVars == <<raw, path, parts, used_parts, out, pc>>
linkVars == <<entry, href, resolved, lpc>>
embedVars == <<bundle, fallback, req_path, status, body, epc>>

(***************************************************************************)
(* Bytes that the code names as character literals.                        *)
(***************************************************************************)
Slash == 47
Backslash == 92
Dot == 46
Percent == 37

\* U+FFFD REPLACEMENT CHARACTER in UTF-8, what decode_utf8_lossy emits
REPLACEMENT == <<239, 191, 189>>

\* the empty string
Empty == <<>>

\* "." and ".." as the loop of format_url_path_safely compares them
CurDir == <<Dot>>
ParentDir == <<Dot, Dot>>

----------------------------------------------------------------------------
(***************************************************************************)
(* percent_encoding::percent_decode_str: a '%' followed by two hex digits  *)
(* becomes the byte they spell; any other byte, a '%' without two hex      *)
(* digits after it included, is copied.                                    *)
(***************************************************************************)
HexVal(b) ==
    IF b \in 48..57 THEN b - 48
    ELSE IF b \in 97..102 THEN b - 87
    ELSE IF b \in 65..70 THEN b - 55
    ELSE -1

percent_decode_lower_only(s) ==
    LET LowVal(b) == IF b \in 48..57 THEN b - 48
                     ELSE IF b \in 97..102 THEN b - 87 ELSE -1
        RECURSIVE go(_, _)
        go(i, acc) ==
            IF i > Len(s) THEN acc
            ELSE IF s[i] = Percent /\ i + 2 <= Len(s)
                    /\ LowVal(s[i+1]) >= 0 /\ LowVal(s[i+2]) >= 0
                 THEN go(i + 3, Append(acc, 16 * LowVal(s[i+1]) + LowVal(s[i+2])))
                 ELSE go(i + 1, Append(acc, s[i]))
    IN go(1, <<>>)

percent_decode(s) ==
    LET RECURSIVE go(_, _)
        go(i, acc) ==
            IF i > Len(s) THEN acc
            ELSE IF s[i] = Percent /\ i + 2 <= Len(s)
                    /\ HexVal(s[i+1]) >= 0 /\ HexVal(s[i+2]) >= 0
                 THEN go(i + 3, Append(acc, 16 * HexVal(s[i+1]) + HexVal(s[i+2])))
                 ELSE go(i + 1, Append(acc, s[i]))
    IN go(1, <<>>)

(***************************************************************************)
(* UTF-8 well-formedness tables used by decode_utf8_lossy                  *)
(* (String::from_utf8_lossy): the width a lead byte announces, and the     *)
(* range its second byte must lie in.                                      *)
(***************************************************************************)
Utf8Width(b) ==
    IF b < 128 THEN 1
    ELSE IF b \in 194..223 THEN 2
    ELSE IF b \in 224..239 THEN 3
    ELSE IF b \in 240..244 THEN 4
    ELSE 0

IsCont(b) == b \in 128..191

SecondOk(lead, b) ==
    IF lead = 224 THEN b \in 160..191
    ELSE IF lead = 237 THEN b \in 128..159
    ELSE IF lead = 240 THEN b \in 144..191
    ELSE IF lead = 244 THEN b \in 128..143
    ELSE IsCont(b)

\* number of bytes, from position i on, that form a prefix of a well-formed
\* sequence (0 when s[i] cannot start one)
Utf8Prefix(s, i) ==
    IF Utf8Width(s[i]) = 0 THEN 0
    ELSE IF Utf8Width(s[i]) = 1 THEN 1
    ELSE IF ~(i + 1 <= Len(s) /\ SecondOk(s[i], s[i+1])) THEN 1
    ELSE IF Utf8Width(s[i]) = 2 THEN 2
    ELSE IF ~(i + 2 <= Len(s) /\ IsCont(s[i+2])) THEN 2
    ELSE IF Utf8Width(s[i]) = 3 THEN 3
    ELSE IF ~(i + 3 <= Len(s) /\ IsCont(s[i+3])) THEN 3
    ELSE 4

\* whether a whole well-formed sequence starts at position i
Utf8Whole(s, i) == Utf8Width(s[i]) > 0 /\ Utf8Prefix(s, i) = Utf8Width(s[i])

\* the bytes an ill-formed sequence at position i takes up
Utf8Skip(s, i) == IF Utf8Prefix(s, i) = 0 THEN 1 ELSE Utf8Prefix(s, i)

decode_utf8_unchecked(bytes) == bytes

\* every maximal ill-formed subsequence is replaced by one U+FFFD
decode_utf8_lossy(bytes) ==
    LET RECURSIVE go(_, _)
        go(i, acc) ==
            IF i > Len(bytes) THEN acc
            ELSE IF Utf8Whole(bytes, i)
                 THEN IF Utf8Width(bytes[i]) = 1 THEN go(i + 1, acc \o SubSeq(bytes, i, i))
                      ELSE IF Utf8Width(bytes[i]) = 2 THEN go(i + 2, acc \o SubSeq(bytes, i, i + 1))
                      ELSE IF Utf8Width(bytes[i]) = 3 THEN go(i + 3, acc \o SubSeq(bytes, i, i + 2))
                      ELSE go(i + 4, acc \o SubSeq(bytes, i, i + 3))
                 ELSE IF Utf8Skip(bytes, i) = 1 THEN go(i + 1, acc \o REPLACEMENT)
                      ELSE IF Utf8Skip(bytes, i) = 2 THEN go(i + 2, acc \o REPLACEMENT)
                      ELSE go(i + 3, acc \o REPLACEMENT)
    IN go(1, <<>>)

\* mod.rs:22-26
decode_url_path_safely(p) == decode_utf8_lossy(percent_decode(p))

----------------------------------------------------------------------------
(***************************************************************************)
(* format_url_path_safely (mod.rs:29-41)                                   *)
(***************************************************************************)
IsSeparatorSlashOnly(b) == b = Slash

\* the pattern ['/', '\\'] of path.split
IsSeparator(b) == b = Slash \/ b = Backslash

\* str::split: the segments between separators, empty ones included; the
\* empty string has one (empty) segment
split(s) ==
    LET RECURSIVE go(_, _, _)
        go(i, cur, acc) ==
            IF i > Len(s) THEN Append(acc, cur)
            ELSE IF IsSeparator(s[i]) THEN go(i + 1, <<>>, Append(acc, cur))
            ELSE go(i + 1, Append(cur, s[i]), acc)
    IN go(1, <<>>, <<>>)

\* Vec::pop: the vector without its last element, unchanged when empty
pop(v) == IF Len(v) = 0 THEN v ELSE SubSeq(v, 1, Len(v) - 1)

\* [String]::join(sep)
join(v, sep) ==
    LET RECURSIVE go(_, _)
        go(i, acc) ==
            IF i > Len(v) THEN acc
            ELSE go(i + 1, IF i = 1 THEN v[i] ELSE acc \o <<sep>> \o v[i])
    IN go(1, <<>>)

scan_part_keep_parent(used, part) ==
    IF part = Empty \/ part = CurDir THEN used
    ELSE IF part = ParentDir
         THEN IF Len(used) = 0 THEN Append(used, part) ELSE pop(used)
         ELSE Append(used, part)

scan_part_ignore_parent(used, part) ==
    IF part = Empty \/ part = CurDir \/ part = ParentDir THEN used
    ELSE Append(used, part)

scan_part_push_parent(used, part) ==
    IF part = Empty \/ part = CurDir THEN used
    ELSE Append(used, part)

scan_part_drop_dotted(used, part) ==
    IF part = Empty \/ (part[1] = Dot /\ part # ParentDir) THEN used
    ELSE IF part = ParentDir THEN pop(used)
    ELSE Append(used, part)

\* the body of the for loop, mod.rs:32-38
scan_part(used, part) ==
    IF part = Empty \/ part = CurDir THEN used
    ELSE IF part = ParentDir THEN pop(used)
    ELSE Append(used, part)

\* the for loop over a list of parts, starting from the stack `used`
scan(used, ps) ==
    LET RECURSIVE go(_, _)
        go(i, acc) == IF i > Len(ps) THEN acc ELSE go(i + 1, scan_part(acc, ps[i]))
    IN go(1, used)

format_url_path_safely(p) == join(scan(<<>>, split(p)), Slash)

normalize_format_first(p) == decode_url_path_safely(format_url_path_safely(p))

\* normalize as the properties use it: decode (mod.rs:22-26), then format (mod.rs:29-41)
normalize(p) == format_url_path_safely(decode_url_path_safely(p))

----------------------------------------------------------------------------
(***************************************************************************)
(* encode_url_path (mod.rs:14-19)                                          *)
(***************************************************************************)
\* the upper-case hex digit of a nibble, as percent_encoding writes it
HexDigit(n) == IF n < 10 THEN 48 + n ELSE 55 + n

\* "%XX"
PercentEscape(b) == <<Percent, HexDigit(b \div 16), HexDigit(b % 16)>>

\* percent_encoding::CONTROLS: the C0 controls and DEL
InControls(b) == b \in 0..31 \/ b = 127

\* utf8_percent_encode(s, CONTROLS): a byte of the set and every non-ASCII
\* byte is written as an escape, every other byte as itself
utf8_percent_encode(s) ==
    LET RECURSIVE go(_, _)
        go(i, acc) ==
            IF i > Len(s) THEN acc
            ELSE IF InControls(s[i]) \/ s[i] >= 128
                 THEN go(i + 1, acc \o PercentEscape(s[i]))
                 ELSE go(i + 1, Append(acc, s[i]))
    IN go(1, <<>>)

\* path.split('/')
split_slash(s) ==
    LET RECURSIVE go(_, _, _)
        go(i, cur, acc) ==
            IF i > Len(s) THEN Append(acc, cur)
            ELSE IF s[i] = Slash THEN go(i + 1, <<>>, Append(acc, cur))
            ELSE go(i + 1, Append(cur, s[i]), acc)
    IN go(1, <<>>, <<>>)

encode_url_path(p) ==
    join([i \in 1..Len(split_slash(p)) |-> utf8_percent_encode(split_slash(p)[i])], Slash)

----------------------------------------------------------------------------
(***************************************************************************)
(* Request paths.  A raw path is a concatenation of at most MaxTokens      *)
(* tokens: '.', '..', the two separators, an ordinary character, the       *)
(* characters percent escapes are made of, well-formed escapes of '.',     *)
(* '/' and '\' in both letter cases, and escapes that spell bytes which    *)
(* are not UTF-8 on their own (%ff, %c3, %a9; %c3%a9 together is U+00E9).  *)
(* The paths requested by test_serve_static_files and the examples of the  *)
(* specification are added whole.                                          *)
(***************************************************************************)
MaxTokens == 3

Tokens ==
    { <<46>>,             \* .
      <<46, 46>>,         \* ..
      <<47>>,             \* /
      <<92>>,             \* \
      <<120>>,            \* x
      <<37>>,             \* %
      <<50>>,             \* 2
      <<101>>,            \* e
      <<37, 50, 101>>,    \* %2e
      <<37, 50, 70>>,     \* %2F
      <<37, 53, 99>>,     \* %5c
      <<37, 102, 102>>,   \* %ff
      <<37, 99, 51>>,     \* %c3
      <<37, 97, 57>> }    \* %a9

\* "../girl/love/eat.txt"
Test_parent_girl == <<46, 46, 47, 103, 105, 114, 108, 47, 108, 111, 118, 101, 47, 101, 97, 116, 46, 116, 120, 116>>

\* "..\\girl\\love\\eat.txt"
Test_parent_girl_bs == <<46, 46, 92, 103, 105, 114, 108, 92, 108, 111, 118, 101, 92, 101, 97, 116, 46, 116, 120, 116>>

\* "dir1/../dir1/test3.txt"
Test_dir1_updown == <<100, 105, 114, 49, 47, 46, 46, 47, 100, 105, 114, 49, 47, 116, 101, 115, 116, 51, 46, 116, 120, 116>>

\* "dir1\\..\\dir1\\test3.txt"
Test_dir1_updown_bs == <<100, 105, 114, 49, 92, 46, 46, 92, 100, 105, 114, 49, 92, 116, 101, 115, 116, 51, 46, 116, 120, 116>>

\* "a/../a/b.txt"
Ex_a_updown == <<97, 47, 46, 46, 47, 97, 47, 98, 46, 116, 120, 116>>

\* "a/b.txt"
Ex_a_b == <<97, 47, 98, 46, 116, 120, 116>>

\* "../../../etc/passwd"
Ex_etc_passwd_escape == <<46, 46, 47, 46, 46, 47, 46, 46, 47, 101, 116, 99, 47, 112, 97, 115, 115, 119, 100>>

\* "etc/passwd"
Ex_etc_passwd == <<101, 116, 99, 47, 112, 97, 115, 115, 119, 100>>

\* ".git/.../x"
Ex_dotgit == <<46, 103, 105, 116, 47, 46, 46, 46, 47, 120>>

\* mod.rs:93, 95, 102, 107
TestPaths == {Test_parent_girl, Test_parent_girl_bs, Test_dir1_updown, Test_dir1_updown_bs}

ExamplePaths == {Ex_a_updown, Ex_a_b, Ex_etc_passwd_escape, Ex_dotgit}

concat(ts) ==
    LET RECURSIVE go(_, _)
        go(i, acc) == IF i > Len(ts) THEN acc ELSE go(i + 1, acc \o ts[i])
    IN go(1, <<>>)

TokenPaths == { concat(ts) : ts \in UNION { [1..n -> Tokens] : n \in 0..MaxTokens } }

RawPaths == TokenPaths \cup TestPaths \cup ExamplePaths

----------------------------------------------------------------------------
(***************************************************************************)
(* The resolver as a state machine: decode the raw path, split it, scan    *)
(* the parts left to right over the stack used_parts, join the stack.      *)
(***************************************************************************)
LinkIdle == entry = <<>> /\ href = <<>> /\ resolved = <<>> /\ lpc = "off"

EmbedIdle ==
    /\ bundle = {} /\ fallback = "" /\ req_path = ""
    /\ status = 0 /\ body = "" /\ epc = "off"

Init ==
    /\ raw \in RawPaths
    /\ path = <<>> /\ parts = <<>> /\ used_parts = <<>> /\ out = <<>>
    /\ pc = "start"
    /\ LinkIdle /\ EmbedIdle

\* mod.rs:22-26
Decode ==
    /\ pc = "start"
    /\ path' = decode_url_path_safely(raw)
    /\ pc' = "decoded"
    /\ UNCHANGED <<raw, parts, used_parts, out, linkVars, embedVars>>

\* mod.rs:30-31: the empty vector and the split iterator
BeginScan ==
    /\ pc = "decoded"
    /\ used_parts' = <<>>
    /\ parts' = split(path)
    /\ pc' = "scan"
    /\ UNCHANGED <<raw, path, out, linkVars, embedVars>>

\* mod.rs:32-33
SkipPart ==
    /\ pc = "scan" /\ parts # <<>>
    /\ Head(parts) = Empty \/ Head(parts) = CurDir
    /\ used_parts' = scan_part(used_parts, Head(parts))
    /\ parts' = Tail(parts)
    /\ UNCHANGED <<raw, path, out, pc, linkVars, embedVars>>

\* mod.rs:34-35
PopPart ==
    /\ pc = "scan" /\ parts # <<>>
    /\ Head(parts) = ParentDir
    /\ used_parts' = scan_part(used_parts, Head(parts))
    /\ parts' = Tail(parts)
    /\ UNCHANGED <<raw, path, out, pc, linkVars, embedVars>>

\* mod.rs:36-37
PushPart ==
    /\ pc = "scan" /\ parts # <<>>
    /\ Head(parts) \notin {Empty, CurDir, ParentDir}
    /\ used_parts' = scan_part(used_parts, Head(parts))
    /\ parts' = Tail(parts)
    /\ UNCHANGED <<raw, path, out, pc, linkVars, embedVars>>

\* mod.rs:40
JoinParts ==
    /\ pc = "scan" /\ parts = <<>>
    /\ out' = join(used_parts, Slash)
    /\ pc' = "done"
    /\ UNCHANGED <<raw, path, parts, used_parts, linkVars, embedVars>>

Next == Decode \/ BeginScan \/ SkipPart \/ PopPart \/ PushPart \/ JoinParts

Spec == Init /\ [][Next]_vars

\* the function runs to completion once called
FairSpec == Spec /\ WF_vars(Next)

----------------------------------------------------------------------------
(***************************************************************************)
(* Vocabulary of the properties.  These definitions read a string on       *)
(* their own terms (they do not go through split or IsSeparator).          *)
(***************************************************************************)
\* the segments of s between the bytes in seps
Segments(s, seps) ==
    LET RECURSIVE go(_, _, _)
        go(i, cur, acc) ==
            IF i > Len(s) THEN Append(acc, cur)
            ELSE IF s[i] \in seps THEN go(i + 1, <<>>, Append(acc, cur))
            ELSE go(i + 1, Append(cur, s[i]), acc)
    IN go(1, <<>>, <<>>)

\* the segments of a joined relative path; the empty path has none
PathSegments(o) == IF o = <<>> THEN <<>> ELSE Segments(o, {47})

HasByte(s, c) == \E i \in 1..Len(s) : s[i] = c

SafeSegment(seg) ==
    /\ seg # <<>> /\ seg # <<46>> /\ seg # <<46, 46>>
    /\ ~HasByte(seg, 47) /\ ~HasByte(seg, 92)

SafeStack(v) == \A i \in 1..Len(v) : SafeSegment(v[i])

SafePath(o) ==
    /\ SafeStack(PathSegments(o))
    /\ ~HasByte(o, 92)
    /\ (o # <<>> => o[1] # 47)

\* s with ins inserted after its first j bytes
InsertAt(s, j, ins) == SubSeq(s, 1, j) \o ins \o SubSeq(s, j + 1, Len(s))

\* the positions (number of bytes before them) where a segment of s starts
SegmentStarts(s) == {0} \cup { j \in 1..Len(s) : s[j] \in {47, 92} }

\* ordinary segments: "x", ".x", "..."
OrdinarySegments == { <<120>>, <<46, 120>>, <<46, 46, 46>> }

IsSubseq(s, t) ==
    LET RECURSIVE go(_, _)
        go(i, j) ==
            IF i > Len(s) THEN TRUE
            ELSE IF j > Len(t) THEN FALSE
            ELSE IF s[i] = t[j] THEN go(i + 1, j + 1)
            ELSE go(i, j + 1)
    IN go(1, 1)

\* well-formed UTF-8 (Unicode 15, table 3-7)
IsUtf8(s) ==
    LET tail(i) == i <= Len(s) /\ s[i] \in 128..191
        RECURSIVE go(_)
        go(i) ==
            IF i > Len(s) THEN TRUE
            ELSE LET c == s[i] IN
                 IF c \in 0..127 THEN go(i + 1)
                 ELSE IF c \in 194..223 THEN tail(i + 1) /\ go(i + 2)
                 ELSE IF c \in 224..239
                      THEN /\ tail(i + 1) /\ tail(i + 2)
                           /\ (c = 224 => s[i+1] >= 160)
                           /\ (c = 237 => s[i+1] <= 159)
                           /\ go(i + 3)
                 ELSE IF c \in 240..244
                      THEN /\ tail(i + 1) /\ tail(i + 2) /\ tail(i + 3)
                           /\ (c = 240 => s[i+1] >= 144)
                           /\ (c = 244 => s[i+1] <= 143)
                           /\ go(i + 4)
                 ELSE FALSE
    IN go(1)

\* s with every '\' turned into '/'
BackslashToSlash(s) == [i \in 1..Len(s) |-> IF s[i] = 92 THEN 47 ELSE s[i]]

\* the percent-encoded spellings of '.', '/' and '\', in both letter cases
Escapes(c) ==
    IF c = 46 THEN { <<37, 50, 101>>, <<37, 50, 69>> }
    ELSE IF c = 47 THEN { <<37, 50, 102>>, <<37, 50, 70>> }
    ELSE IF c = 92 THEN { <<37, 53, 99>>, <<37, 53, 67>> }
    ELSE {}

\* p with one separator repeated, or one '.', '/' or '\' percent-encoded
Variants(p) ==
    { InsertAt(p, j, <<p[j]>>) : j \in { i \in 1..Len(p) : p[i] \in {47, 92} } }
    \cup UNION { { SubSeq(p, 1, j - 1) \o e \o SubSeq(p, j + 1, Len(p)) : e \in Escapes(p[j]) }
                 : j \in 1..Len(p) }

\* p with every '.', '/' and '\' percent-encoded (upper-case hex)
AllEscaped(p) ==
    LET RECURSIVE go(_, _)
        go(i, acc) ==
            IF i > Len(p) THEN acc
            ELSE go(i + 1, acc \o (IF p[i] = 46 THEN <<37, 50, 69>>
                                   ELSE IF p[i] = 47 THEN <<37, 50, 70>>
                                   ELSE IF p[i] = 92 THEN <<37, 53, 67>>
                                   ELSE <<p[i]>>))
    IN go(1, <<>>)

\* "girl/love/eat.txt"
Out_girl == <<103, 105, 114, 108, 47, 108, 111, 118, 101, 47, 101, 97, 116, 46, 116, 120, 116>>

\* "dir1/test3.txt"
Out_dir1_test3 == <<100, 105, 114, 49, 47, 116, 101, 115, 116, 51, 46, 116, 120, 116>>

----------------------------------------------------------------------------
(***************************************************************************)
(* C1  Containment.  At every step of the scan the segment stack holds no  *)
(* empty segment, no ".", no ".." and no segment with a '/' or '\' in it;  *)
(* the joined result has only such segments, no '\' and no leading '/'.    *)
(***************************************************************************)
C1_Containment ==
    /\ SafeStack(used_parts)
    /\ pc = "done" => SafePath(out)

\* "..%2Fx" is decoded to "../x" and resolves to "x"
C1_Witness ==
    /\ pc = "done"
    /\ raw = <<46, 46, 37, 50, 70, 120>>
    /\ path = <<46, 46, 47, 120>>
    /\ out = <<120>>

(***************************************************************************)
(* C2  format_url_path_safely("a/../a/b.txt") = format_url_path_safely(    *)
(* "a/b.txt") = "a/b.txt", and inserting the two segments "x/.." (x an     *)
(* ordinary segment) at any segment boundary of the path leaves the        *)
(* result of format_url_path_safely unchanged.                             *)
(***************************************************************************)
C2_UpDownInsertion ==
    /\ pc = "done" /\ raw = Ex_a_updown => out = Ex_a_b
    /\ pc = "done" /\ raw = Ex_a_b => out = Ex_a_b
    /\ pc = "done" =>
          \A x \in OrdinarySegments :
             /\ \A j \in SegmentStarts(path) :
                   format_url_path_safely(InsertAt(path, j, x \o <<47, 46, 46, 47>>)) = out
             /\ format_url_path_safely(path \o <<47>> \o x \o <<47, 46, 46>>) = out

C2_Witness == pc = "done" /\ raw = Ex_a_updown /\ out = Ex_a_b

(***************************************************************************)
(* C3  A ".." part met while the stack is empty leaves it empty and the    *)
(* scan goes on to the next part; "../../../etc/passwd" resolves to        *)
(* "etc/passwd"; a path made only of "..", "." and empty segments          *)
(* resolves to the empty string.                                           *)
(***************************************************************************)
OnlyDots(p) ==
    \A i \in 1..Len(Segments(p, {47, 92})) :
        Segments(p, {47, 92})[i] \in { <<>>, <<46>>, <<46, 46>> }

C3_PopPastRoot ==
    /\ [](pc = "done" /\ raw = Ex_etc_passwd_escape => out = Ex_etc_passwd)
    /\ [](pc = "done" /\ OnlyDots(path) => out = <<>>)
    /\ [][(pc = "scan" /\ parts # <<>> /\ Head(parts) = <<46, 46>> /\ used_parts = <<>>)
            => (used_parts' = <<>> /\ parts' = Tail(parts) /\ pc' = "scan")]_vars

C3_Witness == pc = "done" /\ raw = Ex_etc_passwd_escape /\ out = Ex_etc_passwd

(***************************************************************************)
(* C4  Both '/' and '\' separate segments: the result for a path equals    *)
(* the result for the same path with every '\' replaced by '/'.            *)
(***************************************************************************)
C4_BackslashIsSeparator ==
    pc = "done" => format_url_path_safely(BackslashToSlash(path)) = out

C4_Witness == pc = "done" /\ raw = Test_dir1_updown_bs /\ out = Out_dir1_test3

(***************************************************************************)
(* C5  The path is percent-decoded before it is split: repeating a         *)
(* separator of the raw path, or spelling a '.', '/' or '\' of it as a     *)
(* percent escape (either letter case), does not change the result.        *)
(***************************************************************************)
C5_EncodedVariants ==
    pc = "done" =>
       /\ \A q \in Variants(raw) : normalize(q) = out
       /\ normalize(AllEscaped(raw)) = out

C5_Witness == pc = "done" /\ raw = Test_parent_girl /\ out = Out_girl

(***************************************************************************)
(* C7  Totality.  Whatever the raw path (malformed escapes, escapes that   *)
(* spell ill-formed UTF-8, the empty string), the decoded path and the     *)
(* result are well-formed UTF-8 strings, and every run of the resolver ends    *)
(* with a result (there is no error outcome).                              *)
(***************************************************************************)
C7_Total ==
    /\ [](IsUtf8(path) /\ IsUtf8(out))
    /\ [](\A i \in 1..Len(used_parts) : IsUtf8(used_parts[i]))
    /\ <>(pc = "done")

\* "%ff/%" resolves to U+FFFD "/%"
C7_Witness ==
    /\ pc = "done"
    /\ raw = <<37, 102, 102, 47, 37>>
    /\ out = <<239, 191, 189, 47, 37>>

(***************************************************************************)
(* C10  format_url_path_safely is idempotent, the segments of its result   *)
(* are, in order, a subsequence of the segments of its input, and a part   *)
(* other than "", "." and ".." (".git" and "..." included) is pushed       *)
(* unchanged.                                                              *)
(***************************************************************************)
C10_IdempotentVerbatim ==
    /\ [](pc = "done" => format_url_path_safely(out) = out)
    /\ [](pc = "done" => IsSubseq(PathSegments(out), Segments(path, {47, 92})))
    /\ [][(pc = "scan" /\ parts # <<>> /\ Head(parts) \notin { <<>>, <<46>>, <<46, 46>> })
            => used_parts' = Append(used_parts, Head(parts))]_vars

C10_Witness == pc = "done" /\ raw = Ex_dotgit /\ out = Ex_dotgit

----------------------------------------------------------------------------
(***************************************************************************)
(* Listing links: an entry path is encoded into a link (encode_url_path)   *)
(* and the link, when followed, is decoded (decode_url_path_safely).       *)
(* Entry paths are concatenations of at most MaxNameTokens tokens.         *)
(***************************************************************************)
MaxNameTokens == 3

NameTokens ==
    { <<97>>,          \* a
      <<46>>,          \* .
      <<47>>,          \* /
      <<92>>,          \* \
      <<37>>,          \* %
      <<52>>,          \* 4
      <<49>>,          \* 1
      <<63>>,          \* ?
      <<35>>,          \* #
      <<32>>,          \* space
      <<1>>,           \* U+0001
      <<195, 169>> }   \* U+00E9

\* "a%41.txt"
Name_a_pct41 == <<97, 37, 52, 49, 46, 116, 120, 116>>

\* "aA.txt"
Name_aA == <<97, 65, 46, 116, 120, 116>>

EntryPaths ==
    { concat(ts) : ts \in UNION { [1..n -> NameTokens] : n \in 0..MaxNameTokens } }
    \cup { Name_a_pct41 }

NormIdle ==
    /\ raw = <<>> /\ path = <<>> /\ parts = <<>> /\ used_parts = <<>>
    /\ out = <<>> /\ pc = "off"

InitLink ==
    /\ entry \in EntryPaths
    /\ href = <<>> /\ resolved = <<>> /\ lpc = "entry"
    /\ NormIdle /\ EmbedIdle

\* mod.rs:14-19
RenderLink ==
    /\ lpc = "entry"
    /\ href' = encode_url_path(entry)
    /\ lpc' = "linked"
    /\ UNCHANGED <<entry, resolved, normVars, embedVars>>

\* mod.rs:22-26
FollowLink ==
    /\ lpc = "linked"
    /\ resolved' = decode_url_path_safely(href)
    /\ lpc' = "followed"
    /\ UNCHANGED <<entry, href, normVars, embedVars>>

NextLink == RenderLink \/ FollowLink

SpecLink == InitLink /\ [][NextLink]_vars

\* the characters with a meaning in a URL besides '/': ? # % space \
UrlStructural == {63, 35, 37, 32, 92}

\* h spells e byte by byte: '/' as itself, a structural byte as its escape,
\* any other byte as itself or as its escape
EncodesStructure(e, h) ==
    LET esc(j, c) == j + 2 <= Len(h) /\ h[j] = 37
                     /\ HexVal(h[j+1]) >= 0 /\ HexVal(h[j+2]) >= 0
                     /\ 16 * HexVal(h[j+1]) + HexVal(h[j+2]) = c
        lit(j, c) == j <= Len(h) /\ h[j] = c
        RECURSIVE go(_, _)
        go(i, j) ==
            IF i > Len(e) THEN j = Len(h) + 1
            ELSE IF e[i] = 47 THEN lit(j, 47) /\ go(i + 1, j + 1)
            ELSE IF e[i] \in UrlStructural THEN esc(j, e[i]) /\ go(i + 1, j + 3)
            ELSE \/ lit(j, e[i]) /\ go(i + 1, j + 1)
                 \/ esc(j, e[i]) /\ go(i + 1, j + 3)
    IN go(1, 1)

(***************************************************************************)
(* C6  In a link made by encode_url_path, '/' is the only URL-structural   *)
(* character left unencoded: every '?', '#', '%', space and '\' of the     *)
(* path is written as an escape, and the '/' of the path stand, one for    *)
(* one, at the same segment boundaries.                                    *)
(***************************************************************************)
C6_OnlySlashUnencoded == lpc # "entry" => EncodesStructure(entry, href)

(***************************************************************************)
(* C9  A link resolves back to the entry it was made for:                  *)
(* decode_url_path_safely(encode_url_path(p)) = p, also for "a%41.txt".    *)
(***************************************************************************)
C9_LinkRoundTrip == lpc = "followed" => resolved = entry

----------------------------------------------------------------------------
(***************************************************************************)
(* The embedded-bundle handler (static_embed::<Assets>(), with or without  *)
(* with_fallback) as section 4.5 of the specification describes it and as  *)
(* test_serve_embed_files (mod.rs:131-179) observes it.  A bundle is a     *)
(* flat set of keys; the request path is looked up as a key.               *)
(***************************************************************************)
\* files of test/static that the test reads, and their content
AssetKeys == {"index.html", "test1.txt", "dir1/test3.txt"}

Content ==
    [k \in AssetKeys |->
        IF k = "index.html" THEN "Index page"
        ELSE IF k = "test1.txt" THEN "copy1" ELSE "copy3"]

\* static_embed::<Assets>() without with_fallback
NoFallback == "<none>"

\* mod.rs:139-141
Fallbacks == {NoFallback, "index.html", "notexist.html"}

\* mod.rs:158-177 and the keys themselves
RequestPaths == AssetKeys \cup {"", "test1111.txt", "abc.txt", "notexist.html"}

OK == 200
NOT_FOUND == 404

\* no response yet
NoStatus == 0

Miss == "<miss>"

resolve_or_fallback_trusting(keys, fb, key) ==
    IF key \in keys THEN key
    ELSE IF fb # NoFallback THEN fb
    ELSE Miss

\* the key whose file answers the request, or Miss
resolve_or_fallback(keys, fb, key) ==
    IF key \in keys THEN key
    ELSE IF fb # NoFallback /\ fb \in keys THEN fb
    ELSE Miss

statusOf(target) == IF target = Miss THEN NOT_FOUND ELSE OK

bodyOf(target) == IF target \in AssetKeys THEN Content[target] ELSE ""

InitEmbed ==
    /\ bundle \in SUBSET AssetKeys
    /\ fallback \in Fallbacks
    /\ req_path = "" /\ status = NoStatus /\ body = "" /\ epc = "idle"
    /\ NormIdle /\ LinkIdle

Respond(key) ==
    /\ req_path' = key
    /\ status' = statusOf(resolve_or_fallback(bundle, fallback, key))
    /\ body' = bodyOf(resolve_or_fallback(bundle, fallback, key))
    /\ epc' = "responded"
    /\ UNCHANGED <<bundle, fallback, normVars, linkVars>>

\* the requested key exists
ServeFile == \E key \in RequestPaths : key \in bundle /\ Respond(key)

\* the requested key is missing and a fallback is configured
ServeFallback ==
    \E key \in RequestPaths : key \notin bundle /\ fallback # NoFallback /\ Respond(key)

\* the requested key is missing and no fallback is configured
ServeNotFound ==
    \E key \in RequestPaths : key \notin bundle /\ fallback = NoFallback /\ Respond(key)

NextEmbed == ServeFile \/ ServeFallback \/ ServeNotFound

SpecEmbed == InitEmbed /\ [][NextEmbed]_vars

(***************************************************************************)
(* C8  Fallback resolution.  An existing key is answered with its content  *)
(* and 200, fallback or not; a missing key with a fallback configured is   *)
(* answered with the fallback's content and 200 when the fallback key      *)
(* exists and with 404 when it does not; a missing key without a fallback  *)
(* is answered with 404.                                                   *)
(***************************************************************************)
C8_FallbackResolution ==
    epc = "responded" =>
       /\ req_path \in bundle => status = 200 /\ body = Content[req_path]
       /\ (req_path \notin bundle /\ fallback # NoFallback /\ fallback \in bundle)
             => status = 200 /\ body = Content[fallback]
       /\ (req_path \notin bundle /\ fallback # NoFallback /\ fallback \notin bundle)
             => status = 404
       /\ (req_path \notin bundle /\ fallback = NoFallback) => status = 404

\* GET /dir3/abc.txt (mod.rs:177): the fallback "notexist.html" is missing too
C8_Witness ==
    /\ epc = "responded" /\ bundle = AssetKeys
    /\ req_path = "abc.txt" /\ fallback = "notexist.html"
    /\ status = 404

====
